---- MODULE Spec2Model ----
(***************************************************************************)
(* A model of the SMTP client of simple-nodemailer: SMTPConnection         *)
(* (src/smtp-connection.js) driven by SMTPTransport.send                   *)
(* (src/smtp-transport.js), against a server that may send any reply line  *)
(* at any time and a network that may cut the byte stream anywhere.        *)
(*                                                                         *)
(* Every callback that Node runs to completion (a socket event, a timer, a *)
(* setImmediate tick) is one action.  The synchronous calls a callback     *)
(* makes are operators on the record of the program's fields (State), in   *)
(* the order the code makes them; the action installs the resulting        *)
(* record.                                                                 *)
(*                                                                         *)
(* Text is a sequence of fragments.  A fragment is a string; a fragment    *)
(* that ends a line carries the line terminator ("\n").  A reply line of   *)
(* the server is a head fragment (the code and the separator: "2 ", "2-")  *)
(* and a tail fragment (the rest and the terminator).                      *)
(***************************************************************************)
EXTENDS Naturals, Sequences, FiniteSets

VARIABLES
    \* SMTPConnection fields (src/smtp-connection.js:49-170); of
    \* lastServerResponse, which the code only writes, the class of the reply
    \* code is kept ("2", "5", or "false" before the first reply)
    stage, destroyed, closing, authenticated, allowsAuth, maxAllowedSize,
    remainder, responseQueue, lastServerResponse,
    responseActions, recipientQueue, envelope,
    greetingTimeout, connectionTimeout,
    \* the socket and its listeners
    socket, secureConnectPending, socketEndListener, socketCloseListener,
    \* the event loop: pending setImmediate(_processResponse) ticks
    immediates,
    \* SMTPTransport.send's closure (src/smtp-transport.js:49-156)
    pc, returned, errorListener, endListener, connectListener, endTimer,
    \* SMTPConnection.send's closure (src/smtp-connection.js:284-320)
    sendReturned, messageListener, message, pipes,
    \* input: the recipients of the mail, and whether SMTPTransport.send was
    \* given a callback ("given") or none ("undefined")
    mailTo, callback,
    \* the server's bytes on their way to the client
    wire,
    \* observations: the number of handlers appended so far, the log of what
    \* was written to the socket and which handler was dispatched (in order),
    \* the runs of the callback the caller of the library supplied, an uncaught
    \* exception, the 'end' and the 'error' events emitted, the runs of the
    \* connect callback
    appended, log, doneCalls, callbackCalls, crashed, ends, errors, connectCalls,
    \* the MimeNode objects constructed so far (src/mime-node.js:30-149), and
    \* what the last run of stream() wrote to its output stream
    nodes, streamed,
    \* the address headers of one MimeNode (the headers getEnvelope reads), the
    \* envelopes getEnvelope() returned since they were set, and what
    \* addressparser returned last
    headers, envelopes, parsed

vars == << stage, destroyed, closing, authenticated, allowsAuth, maxAllowedSize,
           remainder, responseQueue, lastServerResponse,
           responseActions, recipientQueue, envelope,
           greetingTimeout, connectionTimeout,
           socket, secureConnectPending, socketEndListener, socketCloseListener,
           immediates,
           pc, returned, errorListener, endListener, connectListener, endTimer,
           sendReturned, messageListener, message, pipes,
           mailTo, callback,
           wire,
           appended, log, doneCalls, callbackCalls, crashed, ends, errors, connectCalls,
           nodes, streamed, headers, envelopes, parsed >>

(***************************************************************************)
(* Bounds of the model.                                                    *)
(***************************************************************************)
\* recipients of one envelope
MaxRcpt == 2
\* reply lines the server is ahead by: lines written by the server and not
\* yet dispatched to a handler (on the wire, in _remainder or queued)
MaxWire == 2
\* setImmediate ticks that may be pending when the next 'data' event is run
MaxTicks == 2

Recipients == {"b@y.com", "bad@y.com"}

\* options.forceAuth, which the options of src/index.js do not set
ForceAuth == FALSE

\* this.secure of a connection made without options.secure on a port other
\* than 465; nothing in src/ reads or changes it after the constructor
Secure == FALSE

RECURSIVE SeqsUpTo(_, _)
SeqsUpTo(S, n) ==
    IF n = 0 THEN {<<>>}
    ELSE LET shorter == SeqsUpTo(S, n - 1)
         IN  shorter \cup {Append(q, x) : q \in {r \in shorter : Len(r) = n - 1}, x \in S}

\* The recipient lists of the mail.  The code never looks into an address, so
\* a list is taken up to the renaming of its first address.
Envelopes == {q \in SeqsUpTo(Recipients, MaxRcpt) : q = <<>> \/ q[1] = "b@y.com"}

(***************************************************************************)
(* Reply lines.                                                            *)
(***************************************************************************)
\* The lines the server chooses from: "250 ok", "550 no", "250-STARTTLS",
\* "250 AUTH PLAIN", "250 SIZE 1000".
ServerLines ==
    { <<"2 ", "ok\n">>, <<"5 ", "no\n">>, <<"2-", "STARTTLS\n">>, <<"2 ", "AUTH PLAIN\n">>,
      <<"2 ", "SIZE 1000\n">> }

\* /^\d+-/.test(line)
IsContinuation(line) == Head(line) \in {"2-", "3-", "4-", "5-"}

IsTerminating(line) == ~IsContinuation(line)

\* a fragment that ends with the line terminator
EndsLine(fragment) == fragment \in {l[2] : l \in ServerLines}

\* (this._remainder + data).split(/\r?\n/): the complete lines of a text and
\* the unterminated rest (what lines.pop() returns).
RECURSIVE SplitFrom(_, _, _)
SplitFrom(text, current, lines) ==
    IF text = <<>> THEN [lines |-> lines, rest |-> current]
    ELSE IF EndsLine(Head(text))
         THEN SplitFrom(Tail(text), <<>>, Append(lines, Append(current, Head(text))))
         ELSE SplitFrom(Tail(text), Append(current, Head(text)), lines)

SplitLines(text) == SplitFrom(text, <<>>, <<>>)

\* lastline.split('\n').pop() of a queued reply: its last line
LastLine(reply) == reply[Len(reply)]

\* the first character of a reply: the class of its code
ReplyCode(reply) == IF Head(reply[1]) \in {"2 ", "2-"} THEN "2" ELSE "5"

\* /[ -]AUTH\b/i.test(str)
MentionsAUTH(str) == \E i \in 1..Len(str) : str[i][2] = "AUTH PLAIN\n"

\* str.match(/[ -]SIZE(?:[ \t]+(\d+))?/im)
MentionsSIZE(str) == \E i \in 1..Len(str) : str[i][2] = "SIZE 1000\n"

\* Number(match[1]) of the line "250 SIZE 1000"
AdvertisedSize == 1000

\* the size the envelope passed to send declares (envelope.size)
DeclaredSize == 2000

\* whether a reply advertises STARTTLS; src/ never tests it
MentionsSTARTTLS(str) == \E i \in 1..Len(str) : str[i][2] = "STARTTLS\n"

NoEnvelope == [to |-> <<>>, rcptQueue |-> <<>>, accepted |-> <<>>, rejected |-> <<>>, set |-> FALSE]
NoHandler == [kind |-> "none", id |-> 0]

(***************************************************************************)
(* The program's fields as one record, for the operators below.            *)
(***************************************************************************)
State ==
    [ stage |-> stage, destroyed |-> destroyed, closing |-> closing,
      authenticated |-> authenticated, allowsAuth |-> allowsAuth,
      maxAllowedSize |-> maxAllowedSize,
      remainder |-> remainder, responseQueue |-> responseQueue,
      lastServerResponse |-> lastServerResponse,
      responseActions |-> responseActions, recipientQueue |-> recipientQueue,
      envelope |-> envelope,
      greetingTimeout |-> greetingTimeout, connectionTimeout |-> connectionTimeout,
      socket |-> socket, secureConnectPending |-> secureConnectPending,
      socketEndListener |-> socketEndListener,
      socketCloseListener |-> socketCloseListener,
      immediates |-> immediates,
      pc |-> pc, returned |-> returned, errorListener |-> errorListener,
      endListener |-> endListener, connectListener |-> connectListener,
      endTimer |-> endTimer,
      sendReturned |-> sendReturned, messageListener |-> messageListener,
      message |-> message, pipes |-> pipes,
      appended |-> appended, log |-> log,
      doneCalls |-> doneCalls, callbackCalls |-> callbackCalls, crashed |-> crashed,
      ends |-> ends, errors |-> errors, connectCalls |-> connectCalls ]

Install(s) ==
    /\ stage' = s.stage
    /\ destroyed' = s.destroyed
    /\ closing' = s.closing
    /\ authenticated' = s.authenticated
    /\ allowsAuth' = s.allowsAuth
    /\ maxAllowedSize' = s.maxAllowedSize
    /\ remainder' = s.remainder
    /\ responseQueue' = s.responseQueue
    /\ lastServerResponse' = s.lastServerResponse
    /\ responseActions' = s.responseActions
    /\ recipientQueue' = s.recipientQueue
    /\ envelope' = s.envelope
    /\ greetingTimeout' = s.greetingTimeout
    /\ connectionTimeout' = s.connectionTimeout
    /\ socket' = s.socket
    /\ secureConnectPending' = s.secureConnectPending
    /\ socketEndListener' = s.socketEndListener
    /\ socketCloseListener' = s.socketCloseListener
    /\ immediates' = s.immediates
    /\ pc' = s.pc
    /\ returned' = s.returned
    /\ errorListener' = s.errorListener
    /\ endListener' = s.endListener
    /\ connectListener' = s.connectListener
    /\ endTimer' = s.endTimer
    /\ sendReturned' = s.sendReturned
    /\ messageListener' = s.messageListener
    /\ message' = s.message
    /\ pipes' = s.pipes
    /\ appended' = s.appended
    /\ log' = s.log
    /\ doneCalls' = s.doneCalls
    /\ callbackCalls' = s.callbackCalls
    /\ crashed' = s.crashed
    /\ ends' = s.ends
    /\ errors' = s.errors
    /\ connectCalls' = s.connectCalls

(***************************************************************************)
(* Observations.                                                           *)
(***************************************************************************)
Logged(s, ev, what, arg) ==
    [s EXCEPT !.log = Append(@, [ev |-> ev, what |-> what, arg |-> arg])]

\* this._responseActions.push(handler)
Push(s, kind) ==
    [s EXCEPT !.responseActions = Append(@, [kind |-> kind, id |-> s.appended + 1]),
              !.appended = @ + 1]

(***************************************************************************)
(* SMTPTransport.send: the listeners and callbacks of its closure.         *)
(***************************************************************************)
\* _formatError: whatever the message, the type (the error code asked for),
\* the response and the command, the string 'error454' is returned, and a
\* string carries no code
FormatError(type) == [err |-> TRUE, message |-> "error454", code |-> "undefined"]

\* new Error('Unexpected socket close'); err.code is set to 'ETLS' only when
\* _socket.upgrading is set, which nothing in src/ does
UnexpectedClose == [err |-> TRUE, message |-> "Unexpected socket close", code |-> "undefined"]

\* callback(null, info), info.response = str
Info(str) == [err |-> FALSE, message |-> ReplyCode(str), code |-> "undefined"]

\* the callback given to SMTPTransport.send
Callback(s, outcome) ==
    IF callback = "given" THEN [s EXCEPT !.callbackCalls = Append(@, outcome)]
    ELSE [s EXCEPT !.crashed = TRUE]

\* try { return callback(null, info); } catch (E) {}
CallbackCaught(s, outcome) ==
    IF callback = "given" THEN Callback(s, outcome) ELSE s

\* connection.once('end', ...): arms the one-second timer unless returned
TransportOnEnd(s) ==
    IF s.returned THEN s ELSE [s EXCEPT !.endTimer = TRUE]

\* this.emit('end')
EmitEnd(s) ==
    LET t == [s EXCEPT !.ends = @ + 1]
    IN  IF t.endListener THEN TransportOnEnd([t EXCEPT !.endListener = FALSE]) ELSE t

\* _destroy without its _destroyed test
DestroyUnguarded(s) == EmitEnd([s EXCEPT !.destroyed = TRUE])

\* _destroy
Destroy(s) ==
    IF s.destroyed THEN s ELSE EmitEnd([s EXCEPT !.destroyed = TRUE])

\* close
Close(s) ==
    Destroy([s EXCEPT !.connectionTimeout = FALSE,
                      !.greetingTimeout = FALSE,
                      !.responseActions = <<>>,
                      !.closing = TRUE,
                      !.socket = IF @ \in {"connecting", "open"} THEN "ended" ELSE @])

\* connection.once('error', ...)
TransportOnError(s, err) ==
    IF s.returned THEN s
    ELSE Callback(Close([s EXCEPT !.returned = TRUE]), err)

\* this.emit('error', err): an 'error' event nobody listens to is thrown
EmitError(s, err) ==
    IF s.errorListener
    THEN TransportOnError([s EXCEPT !.errorListener = FALSE, !.errors = @ + 1], err)
    ELSE [s EXCEPT !.crashed = TRUE, !.errors = @ + 1]

\* an _onError that does not test _destroyed
OnErrorAgain(s, type) ==
    LET t == [s EXCEPT !.connectionTimeout = FALSE, !.greetingTimeout = FALSE]
        u == EmitError(t, FormatError(type))
    IN  IF u.crashed THEN u ELSE Close(u)

\* _onError
OnError(s, type) ==
    LET t == [s EXCEPT !.connectionTimeout = FALSE, !.greetingTimeout = FALSE]
    IN  IF t.destroyed THEN t
        ELSE LET u == EmitError(t, FormatError(type)) IN IF u.crashed THEN u ELSE Close(u)

\* _sendCommand
SendCommand(s, what, arg) ==
    IF s.destroyed THEN s
    ELSE IF s.socket = "destroyed" THEN Close(s)
    ELSE Logged(s, "write", what, arg)

\* the callback SMTPTransport.send gives to connection.send
TransportSent(s, outcome) ==
    LET closed == Close([s EXCEPT !.returned = TRUE, !.doneCalls = Append(@, outcome)])
    IN  IF outcome.err THEN Callback(closed, outcome) ELSE CallbackCaught(closed, outcome)

(***************************************************************************)
(* SMTPConnection.send and its closure.                                    *)
(***************************************************************************)
\* send's wrapper without its `returned` test
SendCallbackUnguarded(s, outcome) ==
    TransportSent([s EXCEPT !.sendReturned = TRUE], outcome)

\* the wrapper `callback` of send: "ensure that callback is only called once"
SendCallback(s, outcome) ==
    IF s.sendReturned THEN s
    ELSE TransportSent([s EXCEPT !.sendReturned = TRUE], outcome)

\* _createSendStream: registers the handler of the payload's reply
CreateSendStream(s) == Push(s, "STREAM")

\* the callback send gives to _setEnvelope; _actionDATA never passes an error
EnvelopeCallback(s) ==
    LET t == CreateSendStream(Logged(s, "envelope", "", ""))
    IN  [t EXCEPT !.pipes = @ + 1]

\* _setEnvelope; neither envelope.size nor _maxAllowedSize is read
SetEnvelope(s, to) ==
    LET t == [s EXCEPT !.envelope = [to |-> to, rcptQueue |-> to, accepted |-> <<>>,
                                     rejected |-> <<>>, set |-> TRUE]]
    IN  SendCommand(Push(t, "MAIL"), "MAIL", "")

\* send
Send(s, to) == SetEnvelope([s EXCEPT !.messageListener = TRUE], to)

\* sendMessage of SMTPTransport.send
SendMessage(s, to) == Send([s EXCEPT !.message = "open"], to)

\* login
Login(s) == SendCommand(Push(s, "AUTH"), "AUTH", "")

\* the callback SMTPTransport.send gives to login (err is never set)
LoginCallback(s, to) == IF s.returned THEN s ELSE SendMessage(s, to)

\* a connect callback that does not wait for the reply to AUTH
ConnectCallbackEager(s, to, force) ==
    IF s.returned THEN s
    ELSE IF s.allowsAuth \/ force THEN SendMessage(Login(s), to)
    ELSE SendMessage(s, to)

\* the callback SMTPTransport.send gives to connect
ConnectCallback(s, to, force) ==
    IF s.returned THEN s
    ELSE IF s.allowsAuth \/ force THEN Login(s)
    ELSE SendMessage(s, to)

\* this.emit('connect') with no listener registered
EmitConnectUnheard(s, to, force) == s

\* this.emit('connect'), listened to once
EmitConnect(s, to, force) ==
    IF s.connectListener
    THEN ConnectCallback([s EXCEPT !.connectListener = FALSE, !.connectCalls = @ + 1], to, force)
    ELSE s

(***************************************************************************)
(* The handlers.                                                           *)
(***************************************************************************)
\* _actionGreeting
ActionGreeting(s, str) ==
    SendCommand(Push([s EXCEPT !.greetingTimeout = FALSE], "EHLO"), "EHLO", "")

\* _actionEHLO
ActionEHLO(s, str, to, force) ==
    EmitConnect([s EXCEPT !.allowsAuth = @ \/ MentionsAUTH(str),
                          !.maxAllowedSize = IF MentionsSIZE(str) THEN AdvertisedSize ELSE @],
                to, force)

\* _actionAUTHComplete
ActionAUTHComplete(s, str, to) ==
    LoginCallback([s EXCEPT !.authenticated = TRUE], to)

\* the while loop of _actionMAIL
RECURSIVE RcptLoop(_)
RcptLoop(s) ==
    IF s.envelope.rcptQueue = <<>> THEN s
    ELSE LET curRecipient == Head(s.envelope.rcptQueue)
             t == [s EXCEPT !.envelope.rcptQueue = Tail(@),
                            !.recipientQueue = Append(@, curRecipient)]
         IN  RcptLoop(SendCommand(Push(t, "RCPT"), "RCPT", curRecipient))

\* _actionMAIL
ActionMAIL(s, str) == RcptLoop([s EXCEPT !.recipientQueue = <<>>])

\* this._recipientQueue.shift(): undefined on an empty queue
Shift(queue) == IF queue = <<>> THEN "undefined" ELSE Head(queue)

Rest(queue) == IF queue = <<>> THEN <<>> ELSE Tail(queue)

\* _actionRCPT taking the recipient from the end of _recipientQueue (pop)
ActionRCPTLast(s, str) ==
    LET n == Len(s.recipientQueue)
        curRecipient == IF n = 0 THEN "undefined" ELSE s.recipientQueue[n]
        t == [s EXCEPT !.recipientQueue = IF n = 0 THEN <<>> ELSE SubSeq(@, 1, n - 1),
                       !.envelope.accepted = Append(@, curRecipient)]
    IN  SendCommand(Push(Logged(t, "rcpt", "", curRecipient), "DATA"), "DATA", "")

\* _actionRCPT reading the head of _recipientQueue without removing it
ActionRCPTKeep(s, str) ==
    LET curRecipient == Shift(s.recipientQueue)
        t == [s EXCEPT !.envelope.accepted = Append(@, curRecipient)]
    IN  SendCommand(Push(Logged(t, "rcpt", "", curRecipient), "DATA"), "DATA", "")

\* _actionRCPT
ActionRCPT(s, str) ==
    LET curRecipient == Shift(s.recipientQueue)
        t == [s EXCEPT !.recipientQueue = Rest(@),
                       !.envelope.accepted = Append(@, curRecipient)]
    IN  SendCommand(Push(Logged(t, "rcpt", "", curRecipient), "DATA"), "DATA", "")

\* _actionDATA
ActionDATA(s, str) == EnvelopeCallback(s)

\* _actionSMTPStream
ActionSMTPStream(s, str) == SendCallback(s, Info(str))

\* action.call(this, str)
Invoke(s, action, str, to, force) ==
    CASE action.kind = "Greeting" -> ActionGreeting(s, str)
      [] action.kind = "EHLO"     -> ActionEHLO(s, str, to, force)
      [] action.kind = "AUTH"     -> ActionAUTHComplete(s, str, to)
      [] action.kind = "MAIL"     -> ActionMAIL(s, str)
      [] action.kind = "RCPT"     -> ActionRCPT(s, str)
      [] action.kind = "DATA"     -> ActionDATA(s, str)
      [] action.kind = "STREAM"   -> ActionSMTPStream(s, str)

\* a _processResponse that schedules the next tick only for a queued reply
ProcessResponseIfQueued(s, to, force) ==
    IF s.responseQueue = <<>> THEN s
    ELSE LET str == Head(s.responseQueue)
             t == [s EXCEPT !.responseQueue = Tail(@), !.lastServerResponse = ReplyCode(str)]
         IN  IF t.responseActions = <<>>
             THEN [Logged(t, "dispatch", NoHandler.kind, NoHandler.id) EXCEPT !.crashed = TRUE]
             ELSE LET action == Head(t.responseActions)
                      u == [t EXCEPT !.responseActions = Tail(@)]
                      v == Invoke(Logged(u, "dispatch", action.kind, action.id),
                                  action, str, to, force)
                  IN  IF v.responseQueue = <<>> THEN v ELSE [v EXCEPT !.immediates = @ + 1]

\* _processResponse.  With no handler queued, action is undefined and
\* action.call throws a TypeError that nothing catches.
ProcessResponse(s, to, force) ==
    IF s.responseQueue = <<>> THEN s
    ELSE LET str == Head(s.responseQueue)
             t == [s EXCEPT !.responseQueue = Tail(@), !.lastServerResponse = ReplyCode(str)]
         IN  IF t.responseActions = <<>>
             THEN [Logged(t, "dispatch", NoHandler.kind, NoHandler.id) EXCEPT !.crashed = TRUE]
             ELSE LET action == Head(t.responseActions)
                      u == [t EXCEPT !.responseActions = Tail(@)]
                      v == Invoke(Logged(u, "dispatch", action.kind, action.id),
                                  action, str, to, force)
                  IN  [v EXCEPT !.immediates = @ + 1]

\* the for loop of _onData: a line joins the last queued reply when that
\* reply's last line is a continuation, and starts a new reply otherwise
RECURSIVE QueueLines(_, _)
QueueLines(queue, lines) ==
    IF lines = <<>> THEN queue
    ELSE IF queue # <<>> /\ IsContinuation(LastLine(queue[Len(queue)]))
         THEN QueueLines([queue EXCEPT ![Len(queue)] = Append(@, Head(lines))], Tail(lines))
         ELSE QueueLines(Append(queue, <<Head(lines)>>), Tail(lines))

\* _onData
OnData(s, chunk, to, force) ==
    IF s.destroyed \/ chunk = <<>> THEN s
    ELSE LET split == SplitLines(s.remainder \o chunk)
             t == [s EXCEPT !.remainder = split.rest,
                            !.responseQueue = QueueLines(@, split.lines)]
         IN  IF t.responseQueue # <<>>
                /\ IsContinuation(LastLine(t.responseQueue[Len(t.responseQueue)]))
             THEN t
             ELSE ProcessResponse(t, to, force)

\* an _onConnect that does not test _destroyed
OnConnectLate(s) ==
    Push([s EXCEPT !.connectionTimeout = FALSE,
                   !.stage = "connected",
                   !.socketEndListener = TRUE,
                   !.socketCloseListener = TRUE,
                   !.greetingTimeout = TRUE], "Greeting")

\* _onConnect
OnConnect(s) ==
    LET t == [s EXCEPT !.connectionTimeout = FALSE] IN
    IF t.destroyed THEN Close(t)
    ELSE Push([t EXCEPT !.stage = "connected",
                        !.socketEndListener = TRUE,
                        !.socketCloseListener = TRUE,
                        !.greetingTimeout = TRUE], "Greeting")

\* the greeting timer's callback
OnGreetingTimeout(s) ==
    IF s.socket # "none" /\ ~s.destroyed
       /\ s.responseActions # <<>> /\ Head(s.responseActions).kind = "Greeting"
    THEN OnError(s, "ETIMEDOUT")
    ELSE s

\* _onEnd
OnEnd(s) == IF s.socket # "destroyed" THEN [s EXCEPT !.socket = "destroyed"] ELSE s

\* the one-second timer of the 'end' listener of SMTPTransport.send
OnEndTimer(s) ==
    IF s.returned THEN s
    ELSE Callback([s EXCEPT !.returned = TRUE], UnexpectedClose)

\* message.on('error', ...) of send
OnMessageError(s) == SendCallback(s, FormatError("ESTREAM"))

\* nothing parsed by addressparser yet
NotParsed == [parsed |-> FALSE, str |-> <<>>, addresses |-> <<>>]

\* the output of stream() before its first run
NotStreamed == [node |-> 0, children |-> 0, out |-> <<>>]

(***************************************************************************)
(* The initial state: a transport and a mail, nothing started.             *)
(***************************************************************************)
Constructed ==
    /\ stage = "init"
    /\ destroyed = FALSE
    /\ closing = FALSE
    /\ authenticated = FALSE
    /\ allowsAuth = FALSE
    /\ maxAllowedSize = 0
    /\ remainder = <<>>
    /\ responseQueue = <<>>
    /\ lastServerResponse = "false"
    /\ responseActions = <<>>
    /\ recipientQueue = <<>>
    /\ envelope = NoEnvelope
    /\ greetingTimeout = FALSE
    /\ connectionTimeout = FALSE
    /\ socket = "none"
    /\ secureConnectPending = FALSE
    /\ socketEndListener = FALSE
    /\ socketCloseListener = FALSE
    /\ immediates = 0
    /\ pc = "new"
    /\ returned = FALSE
    /\ errorListener = FALSE
    /\ endListener = FALSE
    /\ connectListener = FALSE
    /\ endTimer = FALSE
    /\ sendReturned = FALSE
    /\ messageListener = FALSE
    /\ message = "none"
    /\ pipes = 0
    /\ mailTo \in Envelopes
    /\ wire = <<>>
    /\ appended = 0
    /\ log = <<>>
    /\ doneCalls = <<>>
    /\ callbackCalls = <<>>
    /\ crashed = FALSE
    /\ ends = 0
    /\ errors = 0
    /\ connectCalls = 0
    /\ nodes = <<>>
    /\ streamed = NotStreamed
    /\ headers = <<>>
    /\ envelopes = <<>>
    /\ parsed = NotParsed

\* SMTPTransport.send(mail, callback) called by the program
Init == Constructed /\ callback = "given"

\* Mailer.sendMail(data, callback): this.transporter.send(mail)
MailerInit == Constructed /\ callback = "undefined" /\ mailTo = <<"b@y.com">>

Env == << mailTo, callback, nodes, streamed, headers, envelopes, parsed >>
Net == << wire >>

(***************************************************************************)
(* The callbacks Node runs, one action each.                               *)
(***************************************************************************)
\* SMTPTransport.send's getSocket callback: the connection is made, the
\* 'error' and 'end' listeners and the connect callback are registered
TransportSend ==
    /\ ~crashed /\ pc = "new"
    /\ Install([State EXCEPT !.pc = "resolving", !.errorListener = TRUE,
                             !.endListener = TRUE, !.connectListener = TRUE])
    /\ UNCHANGED << Env, Net >>

\* connect's resolveHostname callback: tls.connect and setupConnectionHandlers
ResolveHostname ==
    /\ ~crashed /\ pc = "resolving"
    /\ Install([State EXCEPT !.pc = "running", !.socket = "connecting",
                             !.secureConnectPending = TRUE,
                             !.connectionTimeout = TRUE])
    /\ UNCHANGED << Env, Net >>

\* the callback of tls.connect
SocketConnect ==
    /\ ~crashed /\ secureConnectPending /\ socket \in {"connecting", "ended"}
    /\ Install(OnConnect([State EXCEPT !.secureConnectPending = FALSE,
                                       !.socket = IF @ = "connecting" THEN "open" ELSE @]))
    /\ UNCHANGED << Env, Net >>

\* the connection timer fires
ConnectionTimeout ==
    /\ ~crashed /\ connectionTimeout
    /\ Install(OnError([State EXCEPT !.connectionTimeout = FALSE], "ETIMEDOUT"))
    /\ UNCHANGED << Env, Net >>

\* the greeting timer fires
GreetingTimeout ==
    /\ ~crashed /\ greetingTimeout
    /\ Install(OnGreetingTimeout([State EXCEPT !.greetingTimeout = FALSE]))
    /\ UNCHANGED << Env, Net >>

\* the socket's 'error' event; Node has destroyed the socket
SocketError ==
    /\ ~crashed /\ socket \in {"connecting", "open", "ended"}
    /\ Install(OnError([State EXCEPT !.socket = "destroyed"], "ESOCKET"))
    /\ UNCHANGED << Env, Net >>

\* the socket's 'timeout' event
SocketTimeout ==
    /\ ~crashed /\ stage = "connected" /\ socket \in {"open", "ended"}
    /\ Install(OnError(State, "ETIMEDOUT"))
    /\ UNCHANGED << Env, Net >>

\* the socket's 'end' event: the server closed its side
SocketEnd ==
    /\ ~crashed /\ socketEndListener /\ socket \in {"open", "ended"}
    /\ Install(OnEnd([State EXCEPT !.socketEndListener = FALSE]))
    /\ UNCHANGED << Env, Net >>

\* the socket's 'close' event
SocketClose ==
    /\ ~crashed /\ socketCloseListener /\ socket = "destroyed"
    /\ Install(Destroy([State EXCEPT !.socketCloseListener = FALSE]))
    /\ UNCHANGED << Env, Net >>

\* the socket's 'data' event: the network delivers the next bytes, cut anywhere
SocketData ==
    /\ ~crashed /\ stage = "connected" /\ socket \in {"open", "ended"}
    /\ immediates < MaxTicks
    /\ \E n \in 1..Len(wire) :
          /\ Install(OnData(State, SubSeq(wire, 1, n), mailTo, ForceAuth))
          /\ wire' = SubSeq(wire, n + 1, Len(wire))
    /\ UNCHANGED Env

\* a setImmediate(() => this._processResponse(true)) runs
Immediate ==
    /\ ~crashed /\ immediates > 0
    /\ Install(ProcessResponse([State EXCEPT !.immediates = @ - 1], mailTo, ForceAuth))
    /\ UNCHANGED << Env, Net >>

\* the one-second timer of SMTPTransport.send's 'end' listener fires
EndTimer ==
    /\ ~crashed /\ endTimer
    /\ Install(OnEndTimer([State EXCEPT !.endTimer = FALSE]))
    /\ UNCHANGED << Env, Net >>

\* the message stream emits 'error'
MessageError ==
    /\ ~crashed /\ messageListener /\ message = "open"
    /\ Install(OnMessageError([State EXCEPT !.message = "error"]))
    /\ UNCHANGED << Env, Net >>

\* the piped message stream ends: the payload is on the socket
MessageEnd ==
    /\ ~crashed /\ pipes > 0 /\ message = "open" /\ socket = "open"
    /\ Install(Logged([State EXCEPT !.message = "ended"], "write", "BODY", ""))
    /\ UNCHANGED << Env, Net >>

\* the number of lines in a sequence of replies
RECURSIVE Lines(_)
Lines(queue) == IF queue = <<>> THEN 0 ELSE Len(Head(queue)) + Lines(Tail(queue))

\* lines the server has written that no handler has seen yet
Undispatched ==
    Cardinality({i \in 1..Len(wire) : EndsLine(wire[i])})
        + (IF remainder = <<>> THEN 0 ELSE 1) + Lines(responseQueue)

\* the server writes one more reply line
ServerSend ==
    /\ ~crashed /\ socket = "open"
    /\ Undispatched < MaxWire
    /\ \E line \in ServerLines : wire' = wire \o line
    /\ UNCHANGED << stage, destroyed, closing, authenticated, allowsAuth, maxAllowedSize,
                    remainder, responseQueue, lastServerResponse,
                    responseActions, recipientQueue, envelope,
                    greetingTimeout, connectionTimeout,
                    socket, secureConnectPending, socketEndListener, socketCloseListener,
                    immediates,
                    pc, returned, errorListener, endListener, connectListener, endTimer,
                    sendReturned, messageListener, message, pipes,
                    mailTo, callback,
                    appended, log, doneCalls, callbackCalls, crashed, ends, errors, connectCalls,
                    nodes, streamed, headers, envelopes, parsed >>

Next ==
    \/ TransportSend
    \/ ResolveHostname
    \/ SocketConnect
    \/ ConnectionTimeout
    \/ GreetingTimeout
    \/ SocketError
    \/ SocketTimeout
    \/ SocketEnd
    \/ SocketClose
    \/ SocketData
    \/ Immediate
    \/ EndTimer
    \/ MessageError
    \/ MessageEnd
    \/ ServerSend

Spec == Init /\ [][Next]_vars

(***************************************************************************)
(* Reading the log.                                                        *)
(***************************************************************************)
\* the commands of one kind written to the socket, in order
Writes(l, what) == SelectSeq(l, LAMBDA e : e.ev = "write" /\ e.what = what)

\* everything written to the socket, in order
AllWrites(l) == SelectSeq(l, LAMBDA e : e.ev = "write")

\* the dispatches of _processResponse, in order
Dispatches(l) == SelectSeq(l, LAMBDA e : e.ev = "dispatch")

\* the dispatches that found a handler of one kind
Handled(l, kind) == SelectSeq(l, LAMBDA e : e.ev = "dispatch" /\ e.what = kind)

\* the dispatches that found a handler
Invocations(l) == SelectSeq(l, LAMBDA e : e.ev = "dispatch" /\ e.what # NoHandler.kind)

\* the recipients _actionRCPT attributed its replies to, in order
Attributed(l) == SelectSeq(l, LAMBDA e : e.ev = "rcpt")

\* the runs of the envelope callback of send
EnvelopeCallbacks(l) == SelectSeq(l, LAMBDA e : e.ev = "envelope")

Args(events) == [i \in 1..Len(events) |-> events[i].arg]

IsPrefix(p, q) == Len(p) <= Len(q) /\ \A i \in 1..Len(p) : p[i] = q[i]

Occurrences(q, x) == Cardinality({i \in 1..Len(q) : q[i] = x})

\* the bytes the 'data' event of this step delivered
Delivered == IF Len(wire') < Len(wire) THEN SubSeq(wire, 1, Len(wire) - Len(wire')) ELSE <<>>

\* the lines _onData completed in this step
ArrivedLines == IF destroyed THEN <<>> ELSE SplitLines(remainder \o Delivered).lines

\* the reply _processResponse took from the queue in this step
StepReply ==
    IF Delivered # <<>> THEN Head(QueueLines(responseQueue, ArrivedLines))
    ELSE Head(responseQueue)

\* the replies of a queue that end with a terminating line
Whole(queue) == SelectSeq(queue, LAMBDA r : IsTerminating(LastLine(r)))

\* a handler of this kind was invoked in this step
Invoked(kind) == Len(Handled(log', kind)) > Len(Handled(log, kind))

\* nothing is on its way and nothing is scheduled
Quiescent == wire = <<>> /\ remainder = <<>> /\ responseQueue = <<>> /\ immediates = 0

(***************************************************************************)
(* C1.  Each dispatch of _processResponse takes one reply and one handler  *)
(* and invokes that handler, and the k-th reply dispatched goes to the     *)
(* k-th handler ever appended.                                             *)
(***************************************************************************)
C1_FifoDispatch ==
    LET D == Dispatches(log)
    IN  \A k \in 1..Len(D) : D[k].what # NoHandler.kind /\ D[k].arg = k

(***************************************************************************)
(* C2.  Every terminating line the client receives closes exactly one      *)
(* queued reply (the continuation lines before it joined to it), and every *)
(* such reply is handed to exactly one handler: in each step, the handler  *)
(* invocations and the whole replies left in the queue account for the     *)
(* whole replies there were and the terminating lines that arrived.        *)
(***************************************************************************)
C2_OneReplyOneHandler ==
    [][ Len(Invocations(log')) + Len(Whole(responseQueue'))
          = Len(Invocations(log)) + Len(Whole(responseQueue))
              + Len(SelectSeq(ArrivedLines, IsTerminating)) ]_vars

(***************************************************************************)
(* C3.  The done callback given to SMTPConnection.send runs at most once.  *)
(***************************************************************************)
C3_DoneAtMostOnce == Len(doneCalls) <= 1

\* done has run, the reply to the payload was dispatched and the message
\* stream has failed as well
C3_Witness ==
    /\ Len(doneCalls) = 1
    /\ Handled(log, "STREAM") # <<>>
    /\ message = "error"

(***************************************************************************)
(* C4.  Whatever the number of recipients, once the server has answered    *)
(* every command and the payload, all answers are processed and the        *)
(* connection is still open, send has called back.                         *)
(***************************************************************************)
C4_SendCallsBack ==
    ( /\ envelope.set /\ socket = "open" /\ ~destroyed /\ ~crashed
      /\ Quiescent
      /\ Len(Dispatches(log)) = 1 + Len(AllWrites(log))
      /\ (pipes > 0 => message = "ended") )
    => Len(doneCalls) = 1

(***************************************************************************)
(* C5.  In one send DATA is written once, and only after the replies to    *)
(* all RCPT TO of the envelope were dispatched; the envelope callback runs *)
(* once and the message is piped at most once.                             *)
(***************************************************************************)
C5_DataOnce ==
    /\ Len(Writes(log, "DATA")) <= 1
    /\ \A i \in 1..Len(log) :
          (log[i].ev = "write" /\ log[i].what = "DATA")
              => Len(Attributed(SubSeq(log, 1, i))) = Len(mailTo)
    /\ Len(EnvelopeCallbacks(log)) <= 1
    /\ pipes <= 1

(***************************************************************************)
(* C6.  A recipient is recorded as accepted only when the reply to its     *)
(* RCPT TO is 2xx, and as rejected otherwise: the step that dispatches a   *)
(* RCPT reply appends the recipient to the one list or to the other.       *)
(***************************************************************************)
C6_AcceptedOnly2xx ==
    [][ Len(Attributed(log')) > Len(Attributed(log)) =>
          LET r == Attributed(log')[Len(Attributed(log'))].arg
          IN  IF lastServerResponse' = "2"
              THEN /\ envelope'.accepted = Append(envelope.accepted, r)
                   /\ envelope'.rejected = envelope.rejected
              ELSE /\ envelope'.rejected = Append(envelope.rejected, r)
                   /\ envelope'.accepted = envelope.accepted ]_vars

(***************************************************************************)
(* C7.  RCPT TO is written in the order of envelope.to, once per recipient *)
(* (all of them once the MAIL reply was dispatched on a connection that is *)
(* still alive), and the i-th RCPT reply dispatched is attributed to the   *)
(* i-th recipient.                                                         *)
(***************************************************************************)
C7_RcptInEnvelopeOrder ==
    /\ IsPrefix(Args(Writes(log, "RCPT")), mailTo)
    /\ IsPrefix(Args(Attributed(log)), mailTo)
    /\ (Handled(log, "MAIL") # <<>> /\ ~destroyed) => Args(Writes(log, "RCPT")) = mailTo

\* two different recipients, both written and both attributed
C7_Witness ==
    /\ Len(mailTo) = 2 /\ mailTo[1] # mailTo[2]
    /\ Args(Writes(log, "RCPT")) = mailTo
    /\ Args(Attributed(log)) = mailTo

(***************************************************************************)
(* C8.  accepted and rejected together never hold more entries than        *)
(* envelope.to, and no recipient more often than envelope.to does.         *)
(***************************************************************************)
C8_RecordedWithinEnvelope ==
    LET recorded == envelope.accepted \o envelope.rejected
    IN  /\ Len(recorded) <= Len(envelope.to)
        /\ \A i \in 1..Len(recorded) :
              Occurrences(recorded, recorded[i]) <= Occurrences(envelope.to, recorded[i])

\* every recipient of a two-recipient envelope is recorded
C8_Witness ==
    /\ envelope.set /\ Len(envelope.to) = 2
    /\ Len(envelope.accepted) + Len(envelope.rejected) = 2

(***************************************************************************)
(* C9.  Only a first reply of class 2 is taken as the greeting: the step   *)
(* that dispatches any other first reply ends the session and writes no    *)
(* EHLO.                                                                   *)
(***************************************************************************)
C9_GreetingMustBe2xx ==
    [][ Invoked("Greeting") =>
          \/ lastServerResponse' = "2"
          \/ Writes(log', "EHLO") = <<>> /\ destroyed' ]_vars

(***************************************************************************)
(* C10.  When the EHLO reply on a connection that is not secure advertises *)
(* STARTTLS, no AUTH is on the socket that STARTTLS does not precede.      *)
(***************************************************************************)
C10_StartTlsBeforeAuth ==
    [][ (Invoked("EHLO") /\ ~Secure /\ MentionsSTARTTLS(StepReply)) =>
          \A i \in 1..Len(log') :
              (log'[i].ev = "write" /\ log'[i].what = "AUTH")
                  => \E j \in 1..(i - 1) : log'[j].ev = "write" /\ log'[j].what = "STARTTLS" ]_vars

(***************************************************************************)
(* C11.  login succeeds only on a 2xx reply to AUTH PLAIN: the step that   *)
(* dispatches the AUTH reply sets authenticated exactly when the reply is  *)
(* of class 2, and after any other reply the login callback is given an    *)
(* error, so that no MAIL FROM follows.                                    *)
(***************************************************************************)
C11_LoginOnly2xx ==
    [][ Invoked("AUTH") =>
          IF lastServerResponse' = "2"
          THEN authenticated'
          ELSE /\ ~authenticated'
               /\ Writes(log', "MAIL") = <<>> ]_vars

(***************************************************************************)
(* C12.  When the EHLO reply advertised a SIZE limit below the size the    *)
(* envelope declares, send has failed at once: done was called with an     *)
(* error and no MAIL FROM was written.                                     *)
(***************************************************************************)
C12_OversizedRejected ==
    (envelope.set /\ maxAllowedSize > 0 /\ DeclaredSize > maxAllowedSize)
        => /\ Writes(log, "MAIL") = <<>>
           /\ doneCalls # <<>> /\ doneCalls[1].err

(***************************************************************************)
(* C13.  The reply to the streamed payload decides the outcome of send:    *)
(* when the step that dispatches it calls done, done gets the info with    *)
(* the server's response after a reply of class 2 and an error of code     *)
(* EMESSAGE after any other reply.                                         *)
(***************************************************************************)
C13_StreamReplyDecides ==
    [][ (Invoked("STREAM") /\ Len(doneCalls') > Len(doneCalls)) =>
          LET outcome == doneCalls'[Len(doneCalls')]
          IN  IF lastServerResponse' = "2"
              THEN ~outcome.err /\ outcome.message = "2"
              ELSE outcome.err /\ outcome.code = "EMESSAGE" ]_vars

(***************************************************************************)
(* C14.  close is idempotent.  Called in any reachable state it leaves no  *)
(* connection or greeting timer, an empty handler queue, a destroyed       *)
(* connection and exactly one 'end' emitted; called again it changes       *)
(* nothing (so it emits nothing).  And wherever close has run, the timers  *)
(* are off, the connection is destroyed and 'end' was emitted once.        *)
(***************************************************************************)
C14_CloseIdempotent ==
    LET once == Close(State)
        twice == Close(once)
    IN  /\ ~once.connectionTimeout /\ ~once.greetingTimeout
        /\ once.responseActions = <<>>
        /\ once.destroyed /\ once.closing
        /\ once.ends = 1
        /\ twice = once
        /\ closing => (~connectionTimeout /\ ~greetingTimeout /\ destroyed /\ ends = 1)

\* close has run twice in one session: in the 'error' listener of
\* SMTPTransport.send and then in _onError itself
C14_Witness ==
    /\ closing /\ destroyed /\ ends = 1
    /\ callbackCalls = <<FormatError("ESOCKET")>>
    /\ responseActions = <<>>
    /\ Handled(log, "Greeting") # <<>>

(***************************************************************************)
(* C15.  After close, replies are dropped silently: in a step that starts  *)
(* with close having run, no reply is dispatched to a handler and nothing  *)
(* fails, whether the reply arrives later or was already queued for a      *)
(* deferred tick when close ran.                                           *)
(***************************************************************************)
C15_DroppedAfterClose ==
    [][ closing => (Dispatches(log') = Dispatches(log) /\ ~crashed') ]_vars

(***************************************************************************)
(* C16.  A socket that closed while a handler other than the greeting's    *)
(* was pending is reported as an error of code ECONNECTION (or ETLS): when *)
(* the delayed check of the 'end' listener runs after such a closure with  *)
(* nothing reported yet, SMTPTransport.send's callback gets that error.    *)
(***************************************************************************)
C16_UnexpectedCloseReported ==
    [][ ( /\ destroyed /\ ~closing
          /\ responseActions # <<>> /\ Head(responseActions).kind # "Greeting"
          /\ endTimer /\ ~endTimer' /\ ~returned )
        => /\ Len(callbackCalls') = Len(callbackCalls) + 1
           /\ callbackCalls'[Len(callbackCalls')].err
           /\ callbackCalls'[Len(callbackCalls')].code \in {"ECONNECTION", "ETLS"} ]_vars

(***************************************************************************)
(* C17.  When the socket's inactivity timeout fires on a connection that   *)
(* is not destroyed yet, the connection is closed and the callback of      *)
(* SMTPTransport.send gets an error of code ETIMEDOUT.                     *)
(***************************************************************************)
C17_TimeoutReported ==
    [][ (SocketTimeout /\ ~destroyed) =>
          /\ destroyed' /\ closing'
          /\ Len(callbackCalls') = Len(callbackCalls) + 1
          /\ callbackCalls'[Len(callbackCalls')].err
          /\ callbackCalls'[Len(callbackCalls')].code = "ETIMEDOUT" ]_vars

(***************************************************************************)
(* C18.  The connect callback runs exactly once, in the step that          *)
(* dispatches the EHLO reply, and never again: a step runs it exactly when *)
(* it invokes _actionEHLO, and it has never run more than once.            *)
(***************************************************************************)
C18_ConnectCallbackOnce ==
    [][ /\ connectCalls' = (IF Invoked("EHLO") THEN connectCalls + 1 ELSE connectCalls)
        /\ connectCalls' <= 1 ]_vars

\* the connect callback has run and two further replies were dispatched
C18_Witness ==
    /\ connectCalls = 1
    /\ Len(Handled(log, "EHLO")) = 1
    /\ Len(Dispatches(log)) >= 4

(***************************************************************************)
(* C19.  login and send on a destroyed or half-closed connection fail at   *)
(* once.  SMTPTransport.send calls login or send from the connect callback *)
(* and send from the login callback, unless it has returned; when such a   *)
(* step starts on a connection that is destroyed or whose socket is, the   *)
(* caller gets an error of code ECONNECTION, nothing is written and no     *)
(* handler is appended.                                                    *)
(***************************************************************************)
C19_RejectsWhenClosed ==
    [][ ( /\ destroyed \/ socket = "destroyed"
          /\ Invoked("EHLO") \/ Invoked("AUTH")
          /\ ~returned )
        => /\ AllWrites(log') = AllWrites(log)
           /\ responseActions' = Tail(responseActions)
           /\ Len(callbackCalls') = Len(callbackCalls) + 1
           /\ callbackCalls'[Len(callbackCalls')].err
           /\ callbackCalls'[Len(callbackCalls')].code = "ECONNECTION" ]_vars

(***************************************************************************)
(* C20.  SMTPTransport.send reports one outcome: under every interleaving  *)
(* of the connection's 'error' and 'end', the delayed check, the login     *)
(* result, the message stream's error and the completion of send, its      *)
(* callback has run at most once, and when the outcome is an error the     *)
(* connection is closed.                                                   *)
(***************************************************************************)
C20_OneOutcome ==
    /\ Len(callbackCalls) <= 1
    /\ \A i \in 1..Len(callbackCalls) : callbackCalls[i].err => destroyed

(***************************************************************************)
(* The MIME tree (src/mime-node.js).  A node is the record of the fields   *)
(* of a MimeNode; a reference to a node is its index in nodes, 0 is        *)
(* undefined.  A header value is a sequence of fragments                   *)
(* (<<"multipart/", "mixed">>), <<>> is a falsy value.  A boundary is the  *)
(* pair of the base and the node id that _generateBoundary joins.          *)
(***************************************************************************)
\* MimeNode objects constructed
MaxNodes == 3

ContentTypes == { <<"multipart/", "mixed">>, <<"text/", "plain">> }

\* options.baseBoundary as the caller gives it, and the value of
\* crypto.randomBytes(8) when the caller gives none: one never drawn before
BaseOption == <<"option">>
RandomBase(n) == <<"random", n>>

\* a falsy boundary (undefined, false) and a falsy header value
NoBoundary == <<>>
Falsy == <<>>

\* _normalizeHeaderKey: Camel-Case, MIME in upper case
NormalizeHeaderKey(key) ==
    CASE key \in {"content-type", "CONTENT-TYPE", "Content-Type"} -> "Content-Type"
      [] key \in {"content-transfer-encoding", "Content-Transfer-Encoding"}
             -> "Content-Transfer-Encoding"
      [] key \in {"mime-version", "Mime-Version", "MIME-Version"} -> "MIME-Version"
      [] key \in {"message-id", "Message-Id", "Message-ID"} -> "Message-ID"
      [] key \in {"date", "Date"} -> "Date"
      [] OTHER -> key

\* a setHeader that removes every header of the key and appends the new one
SetHeaderAtEnd(hs, k, value) ==
    Append(SelectSeq(hs, LAMBDA h : h.key # NormalizeHeaderKey(k)),
           [key |-> NormalizeHeaderKey(k), value |-> value])

\* setHeader(key, value) on a list of headers: the first header of the key
\* is replaced and the later ones are removed, or the header is appended
SetHeaderIn(hs, k, value) ==
    LET key == NormalizeHeaderKey(k)
        headerValue == [key |-> key, value |-> value]
    IN  IF \E i \in 1..Len(hs) : hs[i].key = key
        THEN LET first == CHOOSE i \in 1..Len(hs) :
                              /\ hs[i].key = key
                              /\ \A j \in 1..(i - 1) : hs[j].key # key
             IN  SubSeq(hs, 1, first - 1) \o << headerValue >>
                     \o SelectSeq(SubSeq(hs, first + 1, Len(hs)), LAMBDA h : h.key # key)
        ELSE Append(hs, headerValue)

SetHeader(ns, n, key, value) ==
    [ns EXCEPT ![n].headers = SetHeaderIn(@, key, value)]

\* getHeader(key): the value of the first header of the key, or undefined
GetHeader(ns, n, k) ==
    LET key == NormalizeHeaderKey(k)
        hs == ns[n].headers
    IN  IF \E i \in 1..Len(hs) : hs[i].key = key
        THEN hs[CHOOSE i \in 1..Len(hs) :
                    hs[i].key = key /\ \A j \in 1..(i - 1) : hs[j].key # key].value
        ELSE Falsy

\* new MimeNode(contentType, options): the node is its own root and takes
\* the first id of its own counter; without options.textEncoding the text
\* encoding is ''; drawn counts the Message-ID values the node has drawn
\* from crypto.randomBytes
MimeNode(ns, contentType, baseBoundary) ==
    LET n == Len(ns) + 1
        node == [ rootNode |-> n, parentNode |-> 0, childNodes |-> <<>>,
                  nodeId |-> 1, nodeCounter |-> 1,
                  baseBoundary |-> IF baseBoundary = Falsy THEN RandomBase(n)
                                   ELSE baseBoundary,
                  headers |-> <<>>, content |-> Falsy, textEncoding |-> "",
                  multipart |-> "false", boundary |-> NoBoundary, drawn |-> 0 ]
        made == Append(ns, node)
    IN  IF contentType # Falsy THEN SetHeader(made, n, "Content-Type", contentType)
        ELSE made

\* appendChild(childNode): a node of another root takes this node's root and
\* the next id of that root's counter; its own children are not visited
AppendChild(ns, this, childNode) ==
    LET root == ns[this].rootNode
        renumbered ==
            IF ns[childNode].rootNode # root
            THEN [ns EXCEPT ![root].nodeCounter = @ + 1,
                            ![childNode].rootNode = root,
                            ![childNode].nodeId = ns[root].nodeCounter + 1]
            ELSE ns
    IN  [renumbered EXCEPT ![childNode].parentNode = this,
                           ![this].childNodes = Append(@, childNode)]

\* createChild(contentType, options)
CreateChild(ns, this, contentType, baseBoundary) ==
    AppendChild(MimeNode(ns, contentType, baseBoundary), this, Len(ns) + 1)

\* replace(node): the replacement takes this node's root, parent, id and
\* place among the parent's children; this node becomes a root
Replace(ns, this, node) ==
    IF node = this THEN ns
    ELSE LET parent == ns[this].parentNode
         IN  [ns EXCEPT ![node].rootNode = ns[this].rootNode,
                        ![node].parentNode = parent,
                        ![node].nodeId = ns[this].nodeId,
                        ![this].rootNode = this,
                        ![this].parentNode = 0,
                        ![parent].childNodes =
                            [i \in 1..Len(@) |-> IF @[i] = this THEN node ELSE @[i]]]

\* setContent(content): a content is a string, a sequence of characters
SetContent(ns, n, content) == [ns EXCEPT ![n].content = content]

\* the characters of the contents: latin letters /[a-z]/i, characters of
\* /[\x00-\x08\x0B\x0C\x0E-\x1F\u0080-\uFFFF]/, and others
Latin == {"a", "b"}
NonLatin == {"e'", "u:"}

\* (options.textEncoding || '').toString().trim().charAt(0).toUpperCase()
TextEncoding(option) ==
    CASE option \in {"Q", "quoted-printable"} -> "Q"
      [] option \in {"B", "b", "base64"} -> "B"
      [] OTHER -> ""

\* toString().toLowerCase().trim() of a Content-Transfer-Encoding value
LowerTrimmed(value) ==
    CASE value \in { <<"BASE64 ">>, <<"base64">> } -> <<"base64">>
      [] value \in { <<"Quoted-Printable">>, <<"quoted-printable">> } -> <<"quoted-printable">>
      [] OTHER -> value

\* a _getTextEncoding that prefers Q when the counts are equal
GetTextEncodingOnTie(ns, n, value) ==
    IF ns[n].textEncoding # "" THEN ns[n].textEncoding
    ELSE IF Cardinality({i \in 1..Len(value) : value[i] \in NonLatin})
                <= Cardinality({i \in 1..Len(value) : value[i] \in Latin})
         THEN "Q" ELSE "B"

\* _getTextEncoding(value): the node's textEncoding if it has one, else Q
\* if the value has more latin letters than non-latin characters, else B
GetTextEncoding(ns, n, value) ==
    LET encoding == ns[n].textEncoding
        nonLatinLen == Cardinality({i \in 1..Len(value) : value[i] \in NonLatin})
        latinLen == Cardinality({i \in 1..Len(value) : value[i] \in Latin})
    IN  IF encoding = "" THEN (IF nonLatinLen < latinLen THEN "Q" ELSE "B")
        ELSE encoding

\* getTransferEncoding(): false without content, else the header's value in
\* lower case if it is one of the two encodings, else the one
\* _getTextEncoding prefers for the content
GetTransferEncoding(ns, n) ==
    IF ns[n].content # Falsy
    THEN LET transferEncoding ==
                 LowerTrimmed(GetHeader(ns, n, "Content-Transfer-Encoding"))
         IN  IF transferEncoding \in { <<"base64">>, <<"quoted-printable">> }
             THEN transferEncoding
             ELSE IF GetTextEncoding(ns, n, ns[n].content) = "Q"
                  THEN <<"quoted-printable">> ELSE <<"base64">>
    ELSE Falsy

\* _generateBoundary()
GenerateBoundary(ns, n) == << ns[ns[n].rootNode].baseBoundary, ns[n].nodeId >>

\* mimeFuncs.parseHeaderValue(value): the value before the first ";" and the
\* parameters after it; the values set here carry no parameter
ParseHeaderValue(value) == [value |-> value, params |-> [boundary |-> NoBoundary]]

\* /^multipart\//i.test(contentType)
IsMultipart(contentType) == contentType # <<>> /\ Head(contentType) = "multipart/"

\* _handleContentType(structured): the node's multipart and boundary are set
\* from the parsed value, and the boundary is put among its parameters
HandleContentType(ns, n, structured) ==
    IF IsMultipart(structured.value)
    THEN LET boundary ==
                 IF structured.params.boundary # NoBoundary THEN structured.params.boundary
                 ELSE IF ns[n].boundary # NoBoundary THEN ns[n].boundary
                 ELSE GenerateBoundary(ns, n)
         IN  [ nodes |-> [ns EXCEPT ![n].multipart = structured.value[2],
                                    ![n].boundary = boundary],
               structured |-> [structured EXCEPT !.params.boundary = boundary] ]
    ELSE [ nodes |-> [ns EXCEPT ![n].multipart = "false", ![n].boundary = NoBoundary],
           structured |-> structured ]

\* a header line of the output
HeaderLine(key, structured) ==
    [line |-> "header", key |-> key, value |-> structured.value,
     boundary |-> structured.params.boundary]

\* the forEach of buildHeaders from header i on: every header is parsed,
\* handed to _handleContentType and built into a line
RECURSIVE HeaderLines(_, _, _, _)
HeaderLines(ns, n, i, lines) ==
    IF i > Len(ns[n].headers) THEN [nodes |-> ns, lines |-> lines]
    ELSE LET header == ns[n].headers[i]
             handled == HandleContentType(ns, n, ParseHeaderValue(header.value))
         IN  HeaderLines(handled.nodes, n, i + 1,
                         Append(lines, HeaderLine(header.key, handled.structured)))

\* a messageId() that draws a new value whenever it is called
MessageIdAgain(ns, n) ==
    [ nodes |-> SetHeader([ns EXCEPT ![n].drawn = @ + 1], n, "Message-ID",
                          <<"message-id", n, ns[n].drawn + 1>>),
      messageId |-> <<"message-id", n, ns[n].drawn + 1>> ]

\* _generateMessageId(): random bytes, a value never drawn before
GenerateMessageId(ns, n) ==
    [ nodes |-> [ns EXCEPT ![n].drawn = @ + 1],
      messageId |-> <<"message-id", n, ns[n].drawn + 1>> ]

\* messageId(): the Message-ID header, generated and set if there is none
MessageId(ns, n) ==
    IF GetHeader(ns, n, "Message-ID") = Falsy
    THEN LET generated == GenerateMessageId(ns, n)
         IN  [ nodes |-> SetHeader(generated.nodes, n, "Message-ID", generated.messageId),
               messageId |-> generated.messageId ]
    ELSE [ nodes |-> ns, messageId |-> GetHeader(ns, n, "Message-ID") ]

\* buildHeaders()
BuildHeaders(ns, n) ==
    LET encoded == SetHeader(ns, n, "Content-Transfer-Encoding", GetTransferEncoding(ns, n))
        dated == IF GetHeader(encoded, n, "Date") = Falsy
                 THEN SetHeader(encoded, n, "Date", <<"date">>) ELSE encoded
        identified == MessageId(dated, n).nodes
        versioned == IF GetHeader(identified, n, "MIME-Version") = Falsy
                     THEN SetHeader(identified, n, "MIME-Version", <<"1.0">>) ELSE identified
    IN  HeaderLines(IF ns[n].rootNode = n THEN versioned ELSE encoded, n, 1, <<>>)

\* the lines stream() writes besides the headers
Blank == [line |-> "blank", key |-> "", value |-> <<>>, boundary |-> NoBoundary]
Content(n) == [line |-> "content", key |-> "", value |-> << n >>, boundary |-> NoBoundary]
Delimiter(kind, boundary) ==
    [line |-> kind, key |-> "", value |-> <<>>, boundary |-> boundary]

\* stream(outputStream, options, done) run to its callback: the headers and
\* the blank line, the content, and for a node that is multipart when its
\* content has ended a delimiter before every child and the closing one
RECURSIVE Stream(_, _), ProcessChildNode(_, _, _, _)
Stream(ns, n) ==
    LET built == BuildHeaders(ns, n)
        written == built.lines \o << Blank >>
                       \o (IF ns[n].content # Falsy THEN << Content(n) >> ELSE <<>>)
    IN  IF built.nodes[n].multipart # "false"
        THEN ProcessChildNode(built.nodes, n, 1, written)
        ELSE [nodes |-> built.nodes, out |-> written]

ProcessChildNode(ns, n, childId, out) ==
    IF childId > Len(ns[n].childNodes)
    THEN [nodes |-> ns, out |-> Append(out, Delimiter("close", ns[n].boundary))]
    ELSE LET child == Stream(ns, ns[n].childNodes[childId])
         IN  ProcessChildNode(child.nodes, n, childId + 1,
                              (out \o << Delimiter("open", ns[n].boundary) >>) \o child.out)

\* the nodes above a node
RECURSIVE Ancestors(_, _)
Ancestors(ns, n) ==
    IF ns[n].parentNode = 0 THEN {}
    ELSE {ns[n].parentNode} \cup Ancestors(ns, ns[n].parentNode)

\* the nodes below a node, the node included
RECURSIVE Reachable(_, _)
Reachable(ns, n) ==
    {n} \cup UNION { Reachable(ns, ns[n].childNodes[i]) : i \in 1..Len(ns[n].childNodes) }

\* everything but the MIME tree
smtpVars == << stage, destroyed, closing, authenticated, allowsAuth, maxAllowedSize,
               remainder, responseQueue, lastServerResponse,
               responseActions, recipientQueue, envelope,
               greetingTimeout, connectionTimeout,
               socket, secureConnectPending, socketEndListener, socketCloseListener,
               immediates,
               pc, returned, errorListener, endListener, connectListener, endTimer,
               sendReturned, messageListener, message, pipes,
               mailTo, callback, wire,
               appended, log, doneCalls, callbackCalls, crashed, ends, errors, connectCalls >>

(***************************************************************************)
(* The calls a program makes on the nodes of a tree, one action each.      *)
(***************************************************************************)
\* a leaf is given its content when it is made
WithContent(ns, contentType) ==
    IF contentType = <<"text/", "plain">> THEN SetContent(ns, Len(ns), <<"a">>) ELSE ns

NodeNew ==
    /\ Len(nodes) < MaxNodes
    /\ \E contentType \in ContentTypes \cup {Falsy}, baseBoundary \in {Falsy, BaseOption} :
           nodes' = WithContent(MimeNode(nodes, contentType, baseBoundary), contentType)
    /\ UNCHANGED << smtpVars, streamed, headers, envelopes, parsed >>

NodeCreateChild ==
    /\ Len(nodes) < MaxNodes
    /\ \E this \in 1..Len(nodes), contentType \in ContentTypes \cup {Falsy} :
           nodes' = WithContent(CreateChild(nodes, this, contentType, Falsy), contentType)
    /\ UNCHANGED << smtpVars, streamed, headers, envelopes, parsed >>

\* a node, with or without a parent, is appended to a node that is not below
\* it and does not have it as a child yet
NodeAppendChild ==
    /\ \E this \in 1..Len(nodes), childNode \in 1..Len(nodes) :
           /\ this \notin Reachable(nodes, childNode)
           /\ \A i \in 1..Len(nodes[this].childNodes) : nodes[this].childNodes[i] # childNode
           /\ nodes' = AppendChild(nodes, this, childNode)
    /\ UNCHANGED << smtpVars, streamed, headers, envelopes, parsed >>

\* a node that has a parent is replaced by a node that has none, that the
\* parent is not below and that is no child of the parent yet
NodeReplace ==
    /\ \E this \in 1..Len(nodes), node \in 1..Len(nodes) :
           /\ nodes[this].parentNode # 0
           /\ node # this /\ nodes[node].parentNode = 0
           /\ nodes[this].parentNode \notin Reachable(nodes, node)
           /\ \A i \in 1..Len(nodes[nodes[this].parentNode].childNodes) :
                  nodes[nodes[this].parentNode].childNodes[i] # node
           /\ nodes' = Replace(nodes, this, node)
    /\ UNCHANGED << smtpVars, streamed, headers, envelopes, parsed >>

NodeSetHeader ==
    /\ \E n \in 1..Len(nodes) :
           \/ \E contentType \in ContentTypes :
                  nodes' = SetHeader(nodes, n, "content-type", contentType)
           \/ nodes' = SetHeader(nodes, n, "Content-Transfer-Encoding", <<"base64">>)
    /\ nodes' # nodes
    /\ UNCHANGED << smtpVars, streamed, headers, envelopes, parsed >>

\* a root is streamed
NodeStream ==
    /\ \E n \in 1..Len(nodes) :
           /\ nodes[n].parentNode = 0
           /\ LET done == Stream(nodes, n)
              IN  /\ nodes' = done.nodes
                  /\ streamed' = [node |-> n, children |-> Len(nodes[n].childNodes),
                                   out |-> done.out]
    /\ UNCHANGED << smtpVars, headers, envelopes, parsed >>

\* trees are built, joined and taken apart
TreeNext ==
    \/ NodeNew
    \/ NodeCreateChild
    \/ NodeAppendChild
    \/ NodeReplace

TreeInit == Init /\ mailTo = <<>>

TreeSpec == TreeInit /\ [][TreeNext]_vars

\* one root is made, children are created under it, headers are set and the
\* root is streamed, in any order and any number of times
StreamNext ==
    \/ (nodes = <<>> /\ NodeNew)
    \/ NodeCreateChild
    \/ NodeSetHeader
    \/ NodeStream

StreamSpec == TreeInit /\ [][StreamNext]_vars

(***************************************************************************)
(* Reading the output of stream().                                         *)
(***************************************************************************)
\* the lines of one kind that carry a boundary
DelimiterLines(out, kind, boundary) ==
    SelectSeq(out, LAMBDA l : l.line = kind /\ l.boundary = boundary)

\* the header block of the streamed node: the lines before the first blank
OwnHeaders(out) ==
    LET blank == CHOOSE i \in 1..Len(out) :
                     out[i].line = "blank" /\ \A j \in 1..(i - 1) : out[j].line # "blank"
    IN  SubSeq(out, 1, blank - 1)

\* the Content-Type lines of the streamed node that announce a multipart
MultipartLines(out) ==
    SelectSeq(OwnHeaders(out),
              LAMBDA l : l.key = "Content-Type" /\ IsMultipart(l.value))

\* C21: the stream of a multipart node with N children holds exactly N
\* opening delimiter lines and exactly one closing delimiter line, the
\* closing one last, all with the boundary of the node's Content-Type line
C21_DelimitersPerChild ==
    (streamed.node # 0 /\ MultipartLines(streamed.out) # <<>>) =>
        LET boundary == MultipartLines(streamed.out)[1].boundary
        IN  /\ boundary # NoBoundary
            /\ Len(DelimiterLines(streamed.out, "open", boundary)) = streamed.children
            /\ Len(DelimiterLines(streamed.out, "close", boundary)) = 1
            /\ streamed.out[Len(streamed.out)] = Delimiter("close", boundary)

\* the nodes whose Content-Type header announces a multipart
MultipartNodes(ns) ==
    {n \in 1..Len(ns) : IsMultipart(GetHeader(ns, n, "Content-Type"))}

\* C22: after any construction, createChild, appendChild and replace calls,
\* two distinct multipart nodes reachable from the same root have different
\* generated boundary values
C22_DistinctBoundaries ==
    \A root \in 1..Len(nodes) :
        nodes[root].parentNode = 0 =>
            \A a \in Reachable(nodes, root), b \in Reachable(nodes, root) :
                (a # b /\ {a, b} \subseteq MultipartNodes(nodes))
                    => GenerateBoundary(nodes, a) # GenerateBoundary(nodes, b)

(***************************************************************************)
(* Addresses (src/addressparser.js, src/mime-node.js:501-525, 587-600,     *)
(* 732-787).  An address text is a sequence of atoms: a word without "@"   *)
(* and white space, or one of "@", " ", "<", ">", ",".  The value of an    *)
(* address header is an array of items, an item being a string or an       *)
(* address object {name, address}; a value that is no array is the array   *)
(* of itself ([].concat(addresses)).                                       *)
(***************************************************************************)
\* address headers of the node
MaxAddressHeaders == 2

String(text) == [type |-> "string", name |-> <<>>, address |-> text]
Object(name, text) == [type |-> "object", name |-> name, address |-> text]

Jane == <<"jane", "@", "example.com">>
Bob == <<"bob", "@", "x.com">>
BobShouting == <<" ", "bob", "@", "X.COM">>
Named == <<"Jane", " ", "Doe", " ", "<">> \o Jane \o <<">">>
Listed == Jane \o <<",", " ">> \o Bob

AddressTexts == { Jane, Bob, BobShouting, Named, Listed, <<>> }

AddressValues ==
    { <<String(text)>> : text \in AddressTexts }
        \cup { <<Object(<<"Bob">>, BobShouting)>>, <<String(Jane), Object(<<>>, Bob)>> }

AddressKeys == {"From", "Reply-To", "Sender", "To", "Cc", "Bcc"}

\* String.prototype.trim
RECURSIVE TrimLeft(_)
TrimLeft(text) ==
    IF text # <<>> /\ Head(text) = " " THEN TrimLeft(Tail(text)) ELSE text

RECURSIVE TrimRight(_)
TrimRight(text) ==
    IF text # <<>> /\ text[Len(text)] = " "
    THEN TrimRight(SubSeq(text, 1, Len(text) - 1)) ELSE text

Trim(text) == TrimRight(TrimLeft(text))

\* Tokenizer.tokenize: checkChar adds every character to one text node, and
\* the node is kept if its trimmed value is not empty
Tokenize(str) ==
    LET value == Trim(str)
    IN  IF value = <<>> THEN <<>> ELSE << [type |-> "text", value |-> value] >>

\* /^[^@\s]+@[^@\s]+$/
MatchesAddress(text) ==
    /\ Cardinality({i \in 1..Len(text) : text[i] = "@"}) = 1
    /\ \A i \in 1..Len(text) : text[i] # " "
    /\ text[1] # "@" /\ text[Len(text)] # "@"

\* Array.prototype.join(' ')
RECURSIVE JoinSpaces(_)
JoinSpaces(list) ==
    IF list = <<>> THEN <<>>
    ELSE IF Len(list) = 1 THEN list[1]
    ELSE (list[1] \o <<" ">>) \o JoinSpaces(Tail(list))

\* _handleAddress(tokens): every token is text; the last text that looks
\* like an address is taken as the address
HandleAddress(tokens) ==
    LET text == [i \in 1..Len(tokens) |-> tokens[i].value]
        found == {i \in 1..Len(text) : MatchesAddress(text[i])}
        last == CHOOSE i \in found : \A j \in found : j <= i
        dataAddress == IF found = {} THEN <<>> ELSE text[last]
        dataText == IF found = {} THEN JoinSpaces(text)
                    ELSE JoinSpaces(SubSeq(text, 1, last - 1) \o SubSeq(text, last + 1, Len(text)))
        address == IF dataAddress # <<>> THEN dataAddress ELSE dataText
        name == IF dataText # <<>> THEN dataText ELSE dataAddress
    IN  << [address |-> address, name |-> IF address = name THEN <<>> ELSE name] >>

\* addressparser(str): all tokens belong to one address
AddressParser(str) ==
    LET tokens == Tokenize(str)
    IN  IF tokens = <<>> THEN <<>> ELSE HandleAddress(tokens)

\* a conversion that encodes what is encoded already
ToASCIIAgain(atom) ==
    CASE atom = "X.COM" -> "x.com"
      [] atom = "x.com" -> "xn--x.com"
      [] atom = "xn--x.com" -> "xn--xn--x.com"
      [] atom = "xn--xn--x.com" -> "xn--xn--xn--x.com"
      [] OTHER -> atom

\* punycode.toASCII(domain.toLowerCase()) of one atom of the domain
ToASCII(atom) ==
    CASE atom \in {"X.COM", "x.com"} -> "x.com"
      [] atom \in {"Example.com", "example.com"} -> "example.com"
      [] atom \in {"J\\u00f5geva.ee", "j\\u00f5geva.ee", "xn--jgeva-dua.ee"} -> "xn--jgeva-dua.ee"
      [] OTHER -> atom

\* _normalizeAddress(address)
NormalizeAddress(address) ==
    LET trimmed == Trim(address)
        ats == {i \in 1..Len(trimmed) : trimmed[i] = "@"}
        lastAt == CHOOSE i \in ats : \A j \in ats : j <= i
    IN  IF ats = {} THEN trimmed
        ELSE SubSeq(trimmed, 1, lastAt)
                 \o [i \in 1..(Len(trimmed) - lastAt) |-> ToASCII(trimmed[lastAt + i])]

\* _parseAddresses(addresses) from item j on: the address of an address
\* object is normalized in the object, anything else goes through
\* addressparser.  An entry of the result that is an object of the value
\* refers to it (ref, 0 for an object addressparser made)
RECURSIVE ParseFrom(_, _)
ParseFrom(value, j) ==
    IF j > Len(value) THEN <<>>
    ELSE LET item == value[j]
         IN  IF item.type = "object" /\ item.address # <<>>
             THEN << [address |-> NormalizeAddress(item.address), name |-> item.name,
                      ref |-> j] >> \o ParseFrom(value, j + 1)
             ELSE [i \in 1..Len(AddressParser(item.address)) |->
                       [address |-> AddressParser(item.address)[i].address,
                        name |-> AddressParser(item.address)[i].name,
                        ref |-> 0]] \o ParseFrom(value, j + 1)

ParseAddresses(value) == ParseFrom(value, 1)

\* _convertAddresses(addresses, uniqueList): every entry that has an address
\* is normalized in place and pushed to the list unless the list holds its
\* address; the result is the list and the entries as they are afterwards
RECURSIVE ConvertAddresses(_, _)
ConvertAddresses(addresses, uniqueList) ==
    IF addresses = <<>> THEN [list |-> uniqueList, addresses |-> <<>>]
    ELSE LET address == Head(addresses)
             normal == IF address.address # <<>>
                       THEN [address EXCEPT !.address = NormalizeAddress(@)]
                       ELSE address
             pushed == IF normal.address = <<>>
                            \/ \E i \in 1..Len(uniqueList) :
                                   uniqueList[i].address = normal.address
                       THEN uniqueList
                       ELSE Append(uniqueList, normal)
             rest == ConvertAddresses(Tail(addresses), pushed)
         IN  [list |-> rest.list, addresses |-> << normal >> \o rest.addresses]

\* the value of a header after its address objects were normalized in place
Normalized(value, addresses) ==
    [j \in 1..Len(value) |->
        IF \E i \in 1..Len(addresses) : addresses[i].ref = j
        THEN [value[j] EXCEPT !.address =
                  addresses[CHOOSE i \in 1..Len(addresses) : addresses[i].ref = j].address]
        ELSE value[j]]

\* getEnvelope() from header i on: the headers as they are afterwards and
\* the envelope (from is <<>> for false, to is the list of address objects)
RECURSIVE EnvelopeFrom(_, _, _)
EnvelopeFrom(hs, i, env) ==
    IF i > Len(hs) THEN [headers |-> hs, envelope |-> env]
    ELSE LET header == hs[i]
         IN  IF header.key = "From"
                    \/ (env.from = <<>> /\ header.key \in {"Reply-To", "Sender"})
             THEN LET converted == ConvertAddresses(ParseAddresses(header.value), <<>>)
                      list == converted.list
                  IN  EnvelopeFrom(
                          [hs EXCEPT ![i].value = Normalized(@, converted.addresses)],
                          i + 1,
                          IF list # <<>> THEN [env EXCEPT !.from = list[1].address] ELSE env)
             ELSE IF header.key \in {"To", "Cc", "Bcc"}
             THEN LET converted == ConvertAddresses(ParseAddresses(header.value), env.to)
                  IN  EnvelopeFrom(
                          [hs EXCEPT ![i].value = Normalized(@, converted.addresses)],
                          i + 1, [env EXCEPT !.to = converted.list])
             ELSE EnvelopeFrom(hs, i + 1, env)

\* getEnvelope()
GetEnvelope(hs) ==
    LET done == EnvelopeFrom(hs, 1, [from |-> <<>>, to |-> <<>>])
    IN  [ headers |-> done.headers,
          envelope |-> [ from |-> done.envelope.from,
                         to |-> [i \in 1..Len(done.envelope.to) |->
                                     done.envelope.to[i].address] ] ]

(***************************************************************************)
(* The calls a program makes on the address headers of one node.           *)
(***************************************************************************)
\* setHeader(key, value) with an address header
AddressSetHeader ==
    /\ \E key \in AddressKeys, value \in AddressValues :
           /\ headers' = SetHeaderIn(headers, key, value)
           /\ Len(headers') <= MaxAddressHeaders
    /\ headers' # headers
    /\ envelopes' = <<>>
    /\ parsed' = NotParsed
    /\ UNCHANGED << smtpVars, nodes, streamed >>

\* getEnvelope(), its result joining those of the calls made since the
\* headers were set
AddressGetEnvelope ==
    /\ Len(envelopes) < 2
    /\ LET got == GetEnvelope(headers)
       IN  /\ headers' = got.headers
           /\ envelopes' = Append(envelopes, got.envelope)
    /\ UNCHANGED << smtpVars, nodes, streamed, parsed >>

\* addressparser(str) with a string of a header
AddressParse ==
    /\ \E i \in 1..Len(headers) : \E j \in 1..Len(headers[i].value) :
           LET item == headers[i].value[j]
           IN  /\ item.type = "string"
               /\ parsed' = [parsed |-> TRUE, str |-> item.address,
                             addresses |-> AddressParser(item.address)]
    /\ parsed' # parsed
    /\ UNCHANGED << smtpVars, nodes, streamed, headers, envelopes >>

AddressNext ==
    \/ AddressSetHeader
    \/ AddressGetEnvelope
    \/ AddressParse

AddressSpec == TreeInit /\ [][AddressNext]_vars

RECURSIVE Entries(_)
Entries(text) ==
    IF \E i \in 1..Len(text) : text[i] = ","
    THEN LET comma == CHOOSE i \in 1..Len(text) :
                          text[i] = "," /\ \A j \in 1..(i - 1) : text[j] # ","
         IN  << SubSeq(text, 1, comma - 1) >> \o Entries(SubSeq(text, comma + 1, Len(text)))
    ELSE << text >>

Entry(text) ==
    LET entry == Trim(text)
    IN  IF \E i \in 1..Len(entry) : entry[i] = "<"
        THEN LET open == CHOOSE i \in 1..Len(entry) : entry[i] = "<"
                 close == CHOOSE i \in 1..Len(entry) : entry[i] = ">"
             IN  [address |-> SubSeq(entry, open + 1, close - 1),
                  name |-> Trim(SubSeq(entry, 1, open - 1))]
        ELSE [address |-> entry, name |-> <<>>]

Records(text) ==
    LET entries == SelectSeq(Entries(text), LAMBDA e : Trim(e) # <<>>)
    IN  [i \in 1..Len(entries) |-> Entry(entries[i])]

\* C25: addressparser returns one record per comma-separated entry, in
\* order: the name and the address of "Jane Doe <jane@example.com>", the
\* empty name and the address of a bare "jane@example.com"
C25_OneRecordPerEntry ==
    parsed.parsed => parsed.addresses = Records(parsed.str)

\* the normalized addresses a header value names, in order
RECURSIVE Addresses(_)
Addresses(value) ==
    IF value = <<>> THEN <<>>
    ELSE LET item == Head(value)
             records == Records(item.address)
         IN  (IF item.type = "object" THEN << NormalizeAddress(item.address) >>
              ELSE [i \in 1..Len(records) |-> NormalizeAddress(records[i].address)])
                 \o Addresses(Tail(value))

\* the addresses of the headers of some keys, in header order
RECURSIVE AddressesOf(_, _)
AddressesOf(hs, keys) ==
    IF hs = <<>> THEN <<>>
    ELSE (IF Head(hs).key \in keys THEN Addresses(Head(hs).value) ELSE <<>>)
             \o AddressesOf(Tail(hs), keys)

\* a list without the later occurrences of its elements
RECURSIVE Unique(_)
Unique(list) ==
    IF list = <<>> THEN <<>>
    ELSE LET front == Unique(SubSeq(list, 1, Len(list) - 1))
             last == list[Len(list)]
         IN  IF \E i \in 1..Len(front) : front[i] = last THEN front ELSE Append(front, last)

\* C24: the envelope's from is the address of the From header if it has one,
\* wherever the header stands, and else that of Reply-To or Sender; its to
\* is the addresses of To, Cc and Bcc in header order, each normalized
\* address once
C24_FromAndRecipients ==
    envelopes # <<>> =>
        LET sender == AddressesOf(headers, {"From"})
            other == AddressesOf(headers, {"Reply-To", "Sender"})
        IN  /\ envelopes[1].from = (IF sender # <<>> THEN sender[1]
                                    ELSE IF other # <<>> THEN other[1] ELSE <<>>)
            /\ envelopes[1].to = Unique(AddressesOf(headers, {"To", "Cc", "Bcc"}))

(***************************************************************************)
(* Mailer.sendMail (src/nodemailer.js:43-64): the transport is run by      *)
(* this.transporter.send(mail), which hands it no callback.  The callback  *)
(* the caller supplied (or the one that settles the returned promise) is   *)
(* run by nobody else, so callbackCalls are its runs.                      *)
(***************************************************************************)
MailerSpec == MailerInit /\ [][Next]_vars

\* C26: once the transport has succeeded or failed, the callback supplied to
\* sendMail has run exactly once (or the returned promise is settled)
C26_SendMailReports ==
    returned => (Len(callbackCalls) = 1 /\ ~crashed)

\* the number of replies dispatched in this step
Dispatched == Len(Dispatches(log')) - Len(Dispatches(log))

\* C27 as stated: no reply is dispatched inside the _onData call that
\* received bytes, a step dispatches at most one reply, and a tick is
\* scheduled only while a reply is queued
C27_DeferredDispatch ==
    [][ /\ Delivered # <<>> => Dispatched = 0
        /\ Dispatched <= 1
        /\ immediates' > immediates => responseQueue' # <<>> ]_vars

\* C27, amended: _onData dispatches the first queued reply itself, at once,
\* when the last queued reply is complete; a 'data' event or a tick
\* dispatches at most one reply, to one handler; and every dispatch whose
\* handler returns schedules exactly one tick, whether or not a reply is
\* queued (a tick that finds no reply schedules none)
C27_DispatchSchedulesTick ==
    [][ /\ Dispatched \in {0, 1}
        /\ Len(Invocations(log')) - Len(Invocations(log)) <= 1
        /\ (Delivered # <<>> /\ ~destroyed) =>
               LET queue == QueueLines(responseQueue, ArrivedLines)
               IN  Dispatched = (IF queue # <<>> /\ IsTerminating(LastLine(queue[Len(queue)]))
                                 THEN 1 ELSE 0)
        /\ (Delivered # <<>> /\ ~crashed') => immediates' = immediates + Dispatched
        /\ (Immediate /\ ~crashed') => immediates' = (immediates - 1) + Dispatched ]_vars

\* two replies were dispatched and every tick has run: the first dispatch
\* was made by _onData, and one tick found no reply
C27_Witness ==
    /\ Len(Dispatches(log)) = 2 /\ immediates = 0 /\ responseQueue = <<>>
    /\ ~crashed /\ ~destroyed /\ Len(AllWrites(log)) >= 2

\* what _onData makes of the queue and the remainder when a chunk arrives
Fed(parser, chunk) ==
    LET split == SplitLines(parser.remainder \o chunk)
    IN  [queue |-> QueueLines(parser.queue, split.lines), remainder |-> split.rest]

\* the bytes on the wire are queued alike whether they arrive in one chunk
\* or in two, cut anywhere
CutAnywhere ==
    LET parser == [queue |-> responseQueue, remainder |-> remainder]
    IN  \A n \in 0..Len(wire) : \A m \in 0..n :
            Fed(Fed(parser, SubSeq(wire, 1, m)), SubSeq(wire, m + 1, n))
                = Fed(parser, SubSeq(wire, 1, n))

\* C28: however the server's bytes are cut into chunks, the handlers are
\* given the same replies: the chunks are queued alike, the bytes after the
\* last line terminator stay in the remainder, and every reply handed to a
\* handler is a complete one
C28_ChunkingInvariant ==
    [][ /\ CutAnywhere
        /\ (Delivered # <<>> /\ ~destroyed) =>
               remainder' = SplitLines(remainder \o Delivered).rest
        /\ Dispatched = 1 => IsTerminating(LastLine(StepReply)) ]_vars

\* an event of this kind stands in the log before place i
Before(l, i, ev, what) == \E j \in 1..(i - 1) : l[j].ev = ev /\ l[j].what = what

\* C29: EHLO is written only after the greeting was dispatched, AUTH only
\* after the EHLO reply was dispatched, MAIL FROM only after the AUTH reply
\* was dispatched (after the EHLO reply when no AUTH was written), and every
\* RCPT TO only after the MAIL FROM reply was dispatched
C29_StageOrder ==
    \A i \in 1..Len(log) :
        log[i].ev = "write" =>
            CASE log[i].what = "EHLO" -> Before(log, i, "dispatch", "Greeting")
              [] log[i].what = "AUTH" -> Before(log, i, "dispatch", "EHLO")
              [] log[i].what = "MAIL" ->
                     IF Before(log, i, "write", "AUTH")
                     THEN Before(log, i, "dispatch", "AUTH")
                     ELSE Before(log, i, "dispatch", "EHLO")
              [] log[i].what = "RCPT" -> Before(log, i, "dispatch", "MAIL")
              [] OTHER -> TRUE

\* a session that wrote EHLO, AUTH, MAIL FROM and both RCPT TO
C29_Witness ==
    /\ Len(Writes(log, "EHLO")) = 1 /\ Len(Writes(log, "AUTH")) = 1
    /\ Len(Writes(log, "MAIL")) = 1 /\ Len(Writes(log, "RCPT")) = 2
    /\ ~crashed

\* this step reported one more error to the caller, closed the connection,
\* and the error has this code
Failed(code) ==
    /\ destroyed' /\ closing'
    /\ Len(callbackCalls') = Len(callbackCalls) + 1
    /\ callbackCalls'[Len(callbackCalls')].err
    /\ callbackCalls'[Len(callbackCalls')].code = code

\* C30: the greeting timer, expiring on a connection that is not destroyed
\* and has not dispatched the greeting, makes it fail with ETIMEDOUT and
\* close, and has no effect otherwise; the connection timer makes it fail
\* with ETIMEDOUT, and only while the socket has not opened
C30_TimersReportTimeout ==
    [][ /\ (GreetingTimeout /\ ~destroyed /\ Handled(log, "Greeting") = <<>>)
               => Failed("ETIMEDOUT")
        /\ (GreetingTimeout /\ (destroyed \/ Handled(log, "Greeting") # <<>>))
               => (destroyed' = destroyed /\ callbackCalls' = callbackCalls /\ log' = log)
        /\ ConnectionTimeout => (stage # "connected" /\ Failed("ETIMEDOUT")) ]_vars

(***************************************************************************)
(* The order of the output of stream().                                    *)
(***************************************************************************)
\* the output in the stated order: the node's own header block, the blank
\* line and the content, and for a node whose Content-Type line announces a
\* multipart, for every child in childNodes order a delimiter and the whole
\* output of the child, and the closing delimiter last
RECURSIVE InOrder(_, _), Parts(_, _, _, _)
InOrder(ns, n) ==
    LET own == BuildHeaders(ns, n).lines
        types == SelectSeq(own, LAMBDA l : l.key = "Content-Type" /\ IsMultipart(l.value))
        block == (own \o << Blank >>) \o (IF ns[n].content # Falsy THEN << Content(n) >> ELSE <<>>)
    IN  IF types = <<>> THEN block ELSE block \o Parts(ns, n, 1, types[1].boundary)

Parts(ns, n, i, boundary) ==
    IF i > Len(ns[n].childNodes) THEN << Delimiter("close", boundary) >>
    ELSE (<< Delimiter("open", boundary) >> \o InOrder(ns, ns[n].childNodes[i]))
             \o Parts(ns, n, i + 1, boundary)

\* C31: stream() on a branch node writes its own headers, then for each
\* child in childNodes order a boundary delimiter followed by the complete
\* output of that child (depth first), then the closing boundary, after
\* which it is done
C31_StreamInOrder ==
    [][ (NodeStream /\ streamed'.node \in MultipartNodes(nodes'))
            => streamed'.out = InOrder(nodes', streamed'.node) ]_vars

\* C32: when the message stream emits 'error' because a content source
\* failed, the callback of SMTPConnection.send receives an ESTREAM error and
\* the send has returned: it does not wait for content any longer
C32_ContentFailureReported ==
    [][ (MessageError /\ ~sendReturned)
            => /\ sendReturned'
               /\ Len(callbackCalls') = Len(callbackCalls) + 1
               /\ callbackCalls'[Len(callbackCalls')].err
               /\ callbackCalls'[Len(callbackCalls')].code = "ESTREAM" ]_vars

(***************************************************************************)
(* setHeader(key, value) with a single key.                                *)
(***************************************************************************)
\* the keys and values setHeader is called with
HeaderKeys == {"content-type", "Content-Transfer-Encoding", "date", "X-Mailer"}
HeaderValues == ContentTypes \cup { <<"base64">>, Falsy }

\* the places of the headers of a key, and the headers of the other keys
Places(hs, key) == {i \in 1..Len(hs) : hs[i].key = key}
Others(hs, key) == SelectSeq(hs, LAMBDA h : h.key # key)

\* C33: after setHeader(key, value) the header list holds exactly one entry
\* of the normalized key, with the new value, at the place of the first
\* previous entry of the key or at the end if there was none, and the other
\* headers keep their values and their order
C33_SetHeaderFrame ==
    \A n \in 1..Len(nodes), k \in HeaderKeys, value \in HeaderValues :
        LET key == NormalizeHeaderKey(k)
            before == nodes[n].headers
            after == SetHeader(nodes, n, k, value)[n].headers
            place == IF Places(before, key) = {} THEN Len(before) + 1
                     ELSE CHOOSE i \in Places(before, key) :
                              \A j \in Places(before, key) : i <= j
        IN  /\ Places(after, key) = {place}
            /\ after[place].value = value
            /\ Others(after, key) = Others(before, key)
            /\ \A m \in 1..Len(nodes) :
                   m # n => SetHeader(nodes, n, k, value)[m] = nodes[m]

\* a node made with content whose Content-Type was set again after its
\* headers were built: the new value stands first, before the other headers
C33_Witness ==
    \E n \in 1..Len(nodes) :
        /\ nodes[n].content # Falsy /\ Len(nodes[n].headers) >= 2
        /\ nodes[n].headers[1] = [key |-> "Content-Type", value |-> <<"multipart/", "mixed">>]

(***************************************************************************)
(* The headers a root must have (src/mime-node.js:344-380, 532-540).       *)
(***************************************************************************)
\* the three headers, and the caller setting one of them on a root
Mandatory == {"Date", "Message-ID", "MIME-Version"}

NodeSetMandatory ==
    /\ \E n \in 1..Len(nodes), key \in Mandatory :
           /\ nodes[n].rootNode = n
           /\ nodes' = SetHeader(nodes, n, key, <<"caller">>)
    /\ nodes' # nodes
    /\ UNCHANGED << smtpVars, streamed, headers, envelopes, parsed >>

\* messageId() is called on a node, as sendMessage does on the root
NodeMessageId ==
    /\ \E n \in 1..Len(nodes) : nodes' = MessageId(nodes, n).nodes
    /\ nodes' # nodes
    /\ UNCHANGED << smtpVars, streamed, headers, envelopes, parsed >>

\* buildHeaders() is called on a node
NodeBuildHeaders ==
    /\ \E n \in 1..Len(nodes) : nodes' = BuildHeaders(nodes, n).nodes
    /\ nodes' # nodes
    /\ UNCHANGED << smtpVars, streamed, headers, envelopes, parsed >>

\* one root is made and one child is created under it, the caller sets some
\* of the three headers, and messageId() and buildHeaders() are called in
\* any order
HeaderNext ==
    \/ (nodes = <<>> /\ NodeNew)
    \/ (Len(nodes) = 1 /\ NodeCreateChild)
    \/ NodeSetMandatory
    \/ NodeMessageId
    \/ NodeBuildHeaders

HeaderSpec == TreeInit /\ [][HeaderNext]_vars

\* the lines of a key in a header block
LinesOf(lines, key) == SelectSeq(lines, LAMBDA l : l.key = key)

\* C34: buildHeaders() on the root leaves Date, Message-ID and MIME-Version
\* present and keeps the values they had; the Message-ID messageId()
\* returns is the one of the header block and of every later messageId();
\* buildHeaders() on a node that is not the root adds none of the three
C34_MandatoryHeaders ==
    \A n \in 1..Len(nodes), key \in Mandatory :
        LET built == BuildHeaders(nodes, n)
            reported == MessageId(nodes, n)
            streamed_ == BuildHeaders(reported.nodes, n)
        IN  /\ GetHeader(nodes, n, key) # Falsy
                => GetHeader(built.nodes, n, key) = GetHeader(nodes, n, key)
            /\ nodes[n].rootNode = n
                => /\ GetHeader(built.nodes, n, key) # Falsy
                   /\ Len(LinesOf(built.lines, key)) = 1
                   /\ LinesOf(built.lines, key)[1].value = GetHeader(built.nodes, n, key)
                   /\ LinesOf(streamed_.lines, "Message-ID")[1].value = reported.messageId
                   /\ MessageId(streamed_.nodes, n).messageId = reported.messageId
                   /\ MessageId(built.nodes, n).messageId
                          = LinesOf(built.lines, "Message-ID")[1].value
            /\ nodes[n].rootNode # n
                => (GetHeader(built.nodes, n, key) = Falsy <=> GetHeader(nodes, n, key) = Falsy)

\* a root whose Message-ID was generated and whose headers were built, next
\* to a node that is no root, has built headers and none of the three
C34_Witness ==
    \E n \in 1..Len(nodes), m \in 1..Len(nodes) :
        /\ nodes[n].rootNode = n /\ nodes[n].drawn = 1
        /\ GetHeader(nodes, n, "Message-ID") = <<"message-id", n, 1>>
        /\ GetHeader(nodes, n, "MIME-Version") = <<"1.0">>
        /\ nodes[m].rootNode = n /\ m # n
        /\ Places(nodes[m].headers, "Content-Transfer-Encoding") # {}
        /\ \A key \in Mandatory : GetHeader(nodes, m, key) = Falsy

(***************************************************************************)
(* The transfer encoding of a node (src/mime-node.js:326-337, 825-842).    *)
(***************************************************************************)
\* the contents given to setContent (the empty string among them), the
\* values options.textEncoding is given, and the values the caller sets as
\* Content-Transfer-Encoding
Contents == { <<>>, <<"a", "b">>, <<"a", "e'">>, <<"e'", "u:">>, <<"1", "2">> }
TextEncodings == {"", "Q", "b", "quoted-printable"}
TransferEncodings == { <<"base64">>, <<"BASE64 ">>, <<"quoted-printable">>, <<"7bit">> }

\* new MimeNode(contentType, {textEncoding})
NodeNewEncoded ==
    /\ Len(nodes) < MaxNodes
    /\ \E contentType \in ContentTypes \cup {Falsy}, option \in TextEncodings :
           nodes' = [MimeNode(nodes, contentType, Falsy)
                         EXCEPT ![Len(nodes) + 1].textEncoding = TextEncoding(option)]
    /\ UNCHANGED << smtpVars, streamed, headers, envelopes, parsed >>

NodeSetContent ==
    /\ \E n \in 1..Len(nodes), content \in Contents :
           nodes' = SetContent(nodes, n, content)
    /\ nodes' # nodes
    /\ UNCHANGED << smtpVars, streamed, headers, envelopes, parsed >>

\* the caller sets the Content-Transfer-Encoding header
NodeSetEncoding ==
    /\ \E n \in 1..Len(nodes), value \in TransferEncodings :
           nodes' = SetHeader(nodes, n, "Content-Transfer-Encoding", value)
    /\ nodes' # nodes
    /\ UNCHANGED << smtpVars, streamed, headers, envelopes, parsed >>

\* one node is made, its content and its Content-Transfer-Encoding are set
\* and its headers are built, in any order and any number of times
EncodingNext ==
    \/ (nodes = <<>> /\ NodeNewEncoded)
    \/ NodeSetContent
    \/ NodeSetEncoding
    \/ NodeBuildHeaders

EncodingSpec == TreeInit /\ [][EncodingNext]_vars

\* the numbers of latin letters and of non-latin or control characters
Count(value, class) == Cardinality({i \in 1..Len(value) : value[i] \in class})

\* C35: for a node with content, getTransferEncoding() returns the
\* Content-Transfer-Encoding that was set if it is base64 or
\* quoted-printable; otherwise what the node's textEncoding decides, and
\* without one quoted-printable if the content has more latin letters than
\* non-latin or control characters and base64 if not; it returns the same
\* when called again and after buildHeaders()
C35_TransferEncoding ==
    \A n \in 1..Len(nodes) :
        nodes[n].content # Falsy =>
            LET set == LowerTrimmed(GetHeader(nodes, n, "Content-Transfer-Encoding"))
                result == GetTransferEncoding(nodes, n)
                built == BuildHeaders(nodes, n).nodes
            IN  /\ set \in { <<"base64">>, <<"quoted-printable">> } => result = set
                /\ (set \notin { <<"base64">>, <<"quoted-printable">> }
                        /\ nodes[n].textEncoding = "")
                       => result = IF Count(nodes[n].content, Latin)
                                         > Count(nodes[n].content, NonLatin)
                                    THEN <<"quoted-printable">> ELSE <<"base64">>
                /\ (set \notin { <<"base64">>, <<"quoted-printable">> }
                        /\ nodes[n].textEncoding # "")
                       => result = IF nodes[n].textEncoding = "Q"
                                    THEN <<"quoted-printable">> ELSE <<"base64">>
                /\ GetTransferEncoding(built, n) = result
                /\ GetTransferEncoding(BuildHeaders(built, n).nodes, n) = result

\* a node without textEncoding whose content has as many latin letters as
\* non-latin characters and whose headers were built: its first header, the
\* Content-Transfer-Encoding that buildHeaders set, says base64
C35_Witness ==
    \E n \in 1..Len(nodes) :
        /\ nodes[n].textEncoding = ""
        /\ nodes[n].content \in { <<"a", "e'">>, <<"1", "2">> }
        /\ GetHeader(nodes, n, "Content-Transfer-Encoding") = <<"base64">>
        /\ GetHeader(nodes, n, "MIME-Version") # Falsy
        /\ Places(nodes[n].headers, "Content-Transfer-Encoding") = {1}

(***************************************************************************)
(* appendChild(childNode).                                                 *)
(***************************************************************************)
\* the nodes that have a node among their childNodes
Holders(ns, n) ==
    {m \in 1..Len(ns) : \E i \in 1..Len(ns[m].childNodes) : ns[m].childNodes[i] = n}

\* C36: after appendChild(child) the parentNode of the child is the
\* receiver, its rootNode is the root of the receiver, and the child is in
\* the childNodes of exactly one node: it was removed from the parent it
\* had before
C36_AppendMoves ==
    [][ NodeAppendChild =>
            \E this \in 1..Len(nodes), childNode \in 1..Len(nodes) :
                /\ nodes' = AppendChild(nodes, this, childNode)
                /\ nodes'[childNode].parentNode = this
                /\ nodes'[childNode].rootNode = nodes'[this].rootNode
                /\ Holders(nodes', childNode) = {this} ]_vars

(***************************************************************************)
(* Dispatch under interleavings of 'data' events and deferred ticks.       *)
(***************************************************************************)
\* C37: no handler is invoked with an incomplete multi-line reply: in every
\* step that invokes a handler, whether a 'data' event or a tick scheduled
\* earlier, the reply handed to it ends with a terminating line
C37_WholeReplyDispatched ==
    [][ Len(Invocations(log')) > Len(Invocations(log))
            => IsTerminating(LastLine(StepReply)) ]_vars

\* C38: on a connection that is not destroyed, a reply is taken from the
\* queue only while a handler is pending: every dispatch of the step found
\* a handler
C38_HandlerPending ==
    [][ (Dispatched > 0 /\ ~destroyed)
            => Len(Invocations(log')) - Len(Invocations(log)) = Dispatched ]_vars

(***************************************************************************)
(* The end of a connection.                                                *)
(***************************************************************************)
\* C39: under any interleaving of socket error, timeout, close, end and
\* close() calls a connection emits 'error' at most once and 'end' at most
\* once, and a destroyed connection stays destroyed
C39_EndsOnce ==
    [](errors <= 1 /\ ends <= 1) /\ [][destroyed => destroyed']_vars

\* an error was emitted on a connected socket and close() ran in its
\* listener and in _onError; then the socket's 'end' and 'close' events came
C39_Witness ==
    /\ errors = 1 /\ ends = 1 /\ destroyed /\ closing
    /\ stage = "connected"
    /\ ~socketEndListener /\ ~socketCloseListener

\* C40: once the connection is destroyed nothing is written to the socket
\* any more, whichever operation tries to send, and a socket connect that
\* completes then registers no handler and leaves the stage as it is, not
\* connected
C40_SilentWhenDestroyed ==
    [][ destroyed =>
            /\ AllWrites(log') = AllWrites(log)
            /\ SocketConnect => /\ stage' = stage /\ stage' # "connected"
                                /\ appended' = appended
                                /\ responseActions' = <<>> ]_vars

\* the connection was cancelled by its connection timer and the socket
\* connected afterwards: no handler was ever registered
C40_Witness ==
    /\ destroyed /\ closing /\ errors = 1
    /\ ~secureConnectPending /\ socket = "ended"
    /\ stage = "init" /\ appended = 0 /\ log = <<>>

====
